---- MODULE Spec2Model ----
(***************************************************************************)
(* Model of the XSS LSP extension client (out/extension.js): the           *)
(* case-aggregating, deduplicating reporter that turns diagnostics-changed *)
(* notifications into lines of an output channel and of a pseudo-terminal. *)
(*                                                                         *)
(* Strings are sequences of one-character strings, so that joining,        *)
(* sorting, decimal rendering and the marker pattern are computed and not  *)
(* assumed.  Time is in milliseconds.                                      *)
(***************************************************************************)
EXTENDS Integers, Sequences, FiniteSets, TLC

VARIABLES
    docText,            \* host: uri -> the lines of the document, as now
    diagnostics,        \* host: uri -> the diagnostics the host holds, in its order
    now,                \* host: Date.now()
    lastReports,        \* Map uriKey -> key of the last report       (line 13)
    lastChangeAt,       \* Map uriKey -> time of the last change      (line 14)
    caseTerminal,       \* the owned terminal, or Undefined           (line 11)
    caseTerminalWriter, \* the owned write emitter, or Undefined      (line 12)
    terminals,          \* host: the terminals created for the extension, by id
    writers,            \* the write emitters created, by id: "live" | "disposed"
    outputChannel,      \* the calls made on the output channel, in order
    terminalLog,        \* the calls made on terminals and their emitters, in order
    batches,            \* the invocations of reportXssDiagnostics, by number
    probe               \* result of the last direct call of a pure function

vars == <<docText, diagnostics, now, lastReports, lastChangeAt, caseTerminal,
          caseTerminalWriter, terminals, writers, outputChannel, terminalLog,
          batches, probe>>

----------------------------------------------------------------------------
(* Bounds of the model *)

\* diagnostics-changed notifications in one run
MaxBatches == 2
\* terminals the host creates for the extension in one run
MaxTerminals == 2
\* the clock runs over 0, ClockStep, ..., MaxTicks * ClockStep
MaxTicks == 1
\* lines of a document in the specification of the pure functions
MaxLines == 3
\* diagnostics of a document in the specification of the fingerprint
MaxDiags == 2

\* one step of the clock, in milliseconds
ClockStep == 1500

----------------------------------------------------------------------------
(* Characters and strings *)

\* the UTF-16 code units of the characters the model uses
CharCode ==
    [c \in {"\t", " ", "#", "-", ".", "0", "1", "2", "3", "4", "5", "6", "7",
            "8", "9", ":", "=", "A", "C", "E", "S", "X", "Y", "_", "a", "c",
            "e", "s", "x", "y", "|"} |->
        CASE c = "\t" -> 9   [] c = " " -> 32  [] c = "#" -> 35  [] c = "-" -> 45
          [] c = "." -> 46   [] c = "0" -> 48  [] c = "1" -> 49  [] c = "2" -> 50
          [] c = "3" -> 51   [] c = "4" -> 52  [] c = "5" -> 53  [] c = "6" -> 54
          [] c = "7" -> 55   [] c = "8" -> 56  [] c = "9" -> 57  [] c = ":" -> 58
          [] c = "=" -> 61   [] c = "A" -> 65  [] c = "C" -> 67  [] c = "E" -> 69
          [] c = "S" -> 83   [] c = "X" -> 88  [] c = "Y" -> 89
          [] c = "_" -> 95   [] c = "a" -> 97  [] c = "c" -> 99
          [] c = "e" -> 101  [] c = "s" -> 115 [] c = "x" -> 120 [] c = "y" -> 121
          [] c = "|" -> 124]

Digits == <<"0", "1", "2", "3", "4", "5", "6", "7", "8", "9">>

IsDigit(c) == \E i \in 1..10 : Digits[i] = c

DigitValue(c) == (CHOOSE i \in 1..10 : Digits[i] = c) - 1

\* \s of the pattern, over the characters of the model
IsSpace(c) == c \in {" ", "\t"}

\* \w of the pattern: a letter, a digit or the underscore
IsWord(c) ==
    \/ IsDigit(c)
    \/ c = "_"
    \/ (CharCode[c] >= 65 /\ CharCode[c] <= 90)
    \/ (CharCode[c] >= 97 /\ CharCode[c] <= 122)

\* the upper-case form the i flag compares by
ToUpper(c) ==
    IF CharCode[c] >= 97 /\ CharCode[c] <= 122
    THEN CHOOSE u \in DOMAIN CharCode : CharCode[u] = CharCode[c] - 32
    ELSE c

\* String(n) of a non-negative integer: its decimal digits
RECURSIVE NumStr(_)
NumStr(n) ==
    IF n < 10 THEN <<Digits[n + 1]>>
    ELSE NumStr(n \div 10) \o <<Digits[(n % 10) + 1]>>

\* Number(s) of a string of decimal digits
RECURSIVE DigitsToNumber(_)
DigitsToNumber(s) ==
    IF s = <<>> THEN 0
    ELSE 10 * DigitsToNumber(SubSeq(s, 1, Len(s) - 1)) + DigitValue(s[Len(s)])

\* a < b in the order of the default Array.prototype.sort: by code units
RECURSIVE StrLess(_, _)
StrLess(a, b) ==
    IF b = <<>> THEN FALSE
    ELSE IF a = <<>> THEN TRUE
    ELSE IF CharCode[Head(a)] # CharCode[Head(b)]
         THEN CharCode[Head(a)] < CharCode[Head(b)]
    ELSE StrLess(Tail(a), Tail(b))

\* Array.prototype.join
RECURSIVE Join(_, _)
Join(parts, sep) ==
    IF parts = <<>> THEN <<>>
    ELSE IF Len(parts) = 1 THEN parts[1]
    ELSE parts[1] \o sep \o Join(Tail(parts), sep)

\* insertion of one string into a sorted sequence, after its equals (stable)
RECURSIVE InsertSorted(_, _)
InsertSorted(s, sorted) ==
    IF sorted = <<>> THEN <<s>>
    ELSE IF StrLess(s, Head(sorted)) THEN <<s>> \o sorted
    ELSE <<Head(sorted)>> \o InsertSorted(s, Tail(sorted))

\* Array.prototype.sort with no comparator, on strings
RECURSIVE SortStrings(_)
SortStrings(xs) ==
    IF xs = <<>> THEN <<>>
    ELSE InsertSorted(xs[Len(xs)], SortStrings(SubSeq(xs, 1, Len(xs) - 1)))

----------------------------------------------------------------------------
(* The host's values: URIs, documents, diagnostics *)

NoMatch == <<"null">>

\* first position at or after i that holds no white space (Len(s) + 1 if none)
RECURSIVE SkipSpaces(_, _)
SkipSpaces(s, i) ==
    IF i <= Len(s) /\ IsSpace(s[i]) THEN SkipSpaces(s, i + 1) ELSE i

\* first position at or after i that holds no digit (Len(s) + 1 if none)
RECURSIVE SkipDigits(_, _)
SkipDigits(s, i) ==
    IF i <= Len(s) /\ IsDigit(s[i]) THEN SkipDigits(s, i + 1) ELSE i

\* text.match(/^\s*#\s*CASE\s*(\d+)\b/i): group 1 of the match, or NoMatch.
\* \d+ is greedy and a shorter run of digits ends between two word
\* characters, so the group is the whole run of digits and the match needs
\* the end of the text or a non-word character after it.
MatchCase(text) ==
    LET hash   == SkipSpaces(text, 1)
        word   == SkipSpaces(text, hash + 1)
        digits == SkipSpaces(text, word + 4)
        after  == SkipDigits(text, digits)
    IN  IF /\ hash <= Len(text)
           /\ text[hash] = "#"
           /\ word + 3 <= Len(text)
           /\ <<ToUpper(text[word]), ToUpper(text[word + 1]),
                ToUpper(text[word + 2]), ToUpper(text[word + 3])>>
                  = <<"C", "A", "S", "E">>
           /\ after > digits
           /\ (after > Len(text) \/ ~IsWord(text[after]))
        THEN SubSeq(text, digits, after - 1)
        ELSE NoMatch

\* doc.lineCount
LineCount(doc) == Len(doc.lines)

\* doc.lineAt(i) is defined for 0 <= i < lineCount and throws otherwise
LineAtThrows(doc, i) == i < 0 \/ i >= LineCount(doc)

\* doc.lineAt(i).text
LineAtText(doc, i) == doc.lines[i + 1]

\* the first loop of extractCases: one case per matching line among the
\* first n lines, in line order, each ending at the last line
RECURSIVE ScanCases(_, _)
ScanCases(doc, n) ==
    IF n = 0 THEN <<>>
    ELSE LET m == MatchCase(LineAtText(doc, n - 1))
         IN  IF m # NoMatch
             THEN Append(ScanCases(doc, n - 1),
                         [id |-> DigitsToNumber(m),
                          startLine |-> n - 1,
                          endLine |-> LineCount(doc) - 1])
             ELSE ScanCases(doc, n - 1)

\* FixEndLines with the end of a case on the line where the next one starts
FixEndLinesOverlapping(cases) ==
    [i \in 1..Len(cases) |->
        IF i < Len(cases)
        THEN [cases[i] EXCEPT !.endLine = cases[i + 1].startLine]
        ELSE cases[i]]

\* the second loop of extractCases: every case but the last ends on the line
\* before the next case starts
FixEndLines(cases) ==
    [i \in 1..Len(cases) |->
        IF i < Len(cases)
        THEN [cases[i] EXCEPT !.endLine = cases[i + 1].startLine - 1]
        ELSE cases[i]]

extractCases(doc) == FixEndLines(ScanCases(doc, LineCount(doc)))

\* caseHasIssue with the last line of the range left out
caseHasIssueBeforeEnd(diags, caseRange) ==
    \E k \in 1..Len(diags) :
        LET line == diags[k].range.start.line
        IN  line >= caseRange.startLine /\ line < caseRange.endLine

caseHasIssue(diags, caseRange) ==
    \E k \in 1..Len(diags) :
        LET line == diags[k].range.start.line
        IN  line >= caseRange.startLine /\ line <= caseRange.endLine

AnalyzerSource == "xss-lsp"

\* FilteredDiagnostics without the filter: the diagnostics of every source
FilteredDiagnosticsAll(all) == all

\* getDiagnostics(uri).filter((diag) => diag.source === "xss-lsp")
RECURSIVE FilteredDiagnostics(_)
FilteredDiagnostics(all) ==
    IF all = <<>> THEN <<>>
    ELSE IF Head(all).source = AnalyzerSource
         THEN <<Head(all)>> \o FilteredDiagnostics(Tail(all))
    ELSE FilteredDiagnostics(Tail(all))

\* CaseKeyEntry without the flag of the case
CaseKeyEntryIdOnly(diags, c) == NumStr(c.id) \o <<":", "0">>

\* `${c.id}:${caseHasIssue(diagnostics, c) ? 1 : 0}`
CaseKeyEntry(diags, c) ==
    NumStr(c.id) \o <<":">> \o (IF caseHasIssue(diags, c) THEN <<"1">> ELSE <<"0">>)

\* cases.sort((a, b) => a.id - b.id): by ascending id, equal ids in the order
\* they had (the sort is stable)
SortedById(cases) ==
    [i \in 1..Len(cases) |->
        cases[CHOOSE j \in 1..Len(cases) :
                Cardinality({k \in 1..Len(cases) :
                    \/ cases[k].id < cases[j].id
                    \/ (cases[k].id = cases[j].id /\ k < j)}) = i - 1]]

\* CaseReportKey over the cases sorted by id
CaseReportKeyById(cases, diags) ==
    Join([i \in 1..Len(cases) |-> CaseKeyEntry(diags, SortedById(cases)[i])], <<"|">>)

\* reportKey: the entries of the cases in the order of cases, joined by "|"
CaseReportKey(cases, diags) ==
    Join([i \in 1..Len(cases) |-> CaseKeyEntry(diags, cases[i])], <<"|">>)

\* `${start.line}:${start.character}:${end.line}:${end.character}:${diag.message}`
DiagKeyEntry(diag) ==
    NumStr(diag.range.start.line) \o <<":">> \o NumStr(diag.range.start.character)
      \o <<":">> \o NumStr(diag.range.end.line) \o <<":">>
      \o NumStr(diag.range.end.character) \o <<":">> \o diag.message

\* fingerprint: the entries of the diagnostics, sorted, joined by "|"
FlatFingerprint(diags) ==
    Join(SortStrings([i \in 1..Len(diags) |-> DiagKeyEntry(diags[i])]), <<"|">>)

----------------------------------------------------------------------------
(* Rendering *)

\* 2^n modulo 1000
RECURSIVE Pow2Mod1000(_)
Pow2Mod1000(n) == IF n = 0 THEN 1 ELSE (2 * Pow2Mod1000(n - 1)) % 1000

\* the greatest k, from k on, with 1000 * 2^k <= ms
RECURSIVE BinadeUp(_, _)
BinadeUp(ms, k) == IF 1000 * 2^(k + 1) <= ms THEN BinadeUp(ms, k + 1) ELSE k

\* the least j, from j on, with ms * 2^j >= 1000
RECURSIVE BinadeDown(_, _)
BinadeDown(ms, j) == IF ms * 2^j >= 1000 THEN j ELSE BinadeDown(ms, j + 1)

\* the binary exponent of ms / 1000, for ms >= 1:
\* 2^Binade(ms) <= ms / 1000 < 2^(Binade(ms) + 1)
Binade(ms) == IF ms >= 1000 THEN BinadeUp(ms, 0) ELSE 0 - BinadeDown(ms, 1)

\* ms / 1000 as the division computes it is the double nearest to the
\* quotient: a multiple of 2^(Binade(ms) - 52).  The remainder of
\* ms * 2^(52 - Binade(ms)) modulo 1000 tells on which side of the quotient
\* that double lies: 0 if it is the quotient, below 500 if it is less, above
\* 500 if it is more (500 would need 125 to divide ms and 2^(52 - Binade(ms))
\* to divide 4, which no ms in the range of the clock gives).
DoubleRemainder(ms) ==
    ((ms % 1000) * Pow2Mod1000(52 - Binade(ms))) % 1000

\* Math.max(0, elapsedMs) / 1000, then toFixed(2): seconds with two decimals.
\* toFixed takes the integer n with n / 100 nearest to the double, and the
\* larger n of two equally near.  Only when ms ends in 5 are two values of n
\* as near to the quotient as each other, and then the side on which the
\* double lies decides: (15 / 1000).toFixed(2) is "0.01", (125 / 1000)
\* .toFixed(2) is "0.13".
ToFixed2(elapsedMs) ==
    LET ms         == IF elapsedMs > 0 THEN elapsedMs ELSE 0
        hundredths == IF ms % 10 = 5
                      THEN (ms \div 10)
                             + (IF DoubleRemainder(ms) \in 1..500 THEN 0 ELSE 1)
                      ELSE (ms + 5) \div 10
    IN  NumStr(hundredths \div 100) \o <<".">>
          \o <<Digits[((hundredths % 100) \div 10) + 1],
               Digits[(hundredths % 10) + 1]>>

\* ElapsedMs with a missing record read as time 0
ElapsedMsSinceEpoch(changeAt, clock, uriKey) ==
    clock - (IF uriKey \in DOMAIN changeAt THEN changeAt[uriKey] ELSE 0)

\* Date.now() - (lastChangeAt.get(uriKey) ?? Date.now())
ElapsedMs(changeAt, clock, uriKey) ==
    clock - (IF uriKey \in DOMAIN changeAt THEN changeAt[uriKey] ELSE clock)

\* The Korean literals of the source are written in Latin letters here:
\*   "seonggong" for 성공 (success), "silpae" for 실패 (failure),
\*   "beon keiseu" for 번 케이스 (as in "case number 3").
StatusSuccess == "seonggong"
StatusFailure == "silpae"

\* CaseStatus with the two labels exchanged
CaseStatusExchanged(diags, c) ==
    IF caseHasIssue(diags, c) THEN StatusFailure ELSE StatusSuccess

\* const status = ok ? "성공" : "실패", with ok = caseHasIssue(diagnostics, c)
CaseStatus(diags, c) ==
    IF caseHasIssue(diags, c) THEN StatusSuccess ELSE StatusFailure

\* `### ${c.id}번 케이스 -> ${status} ${elapsedSec.toFixed(2)}s`
CaseLine(diags, c, elapsedMs) ==
    <<"### ">> \o NumStr(c.id) \o <<"beon keiseu -> ", CaseStatus(diags, c), " ">>
      \o ToFixed2(elapsedMs) \o <<"s">>

\* RenderOrder over the cases sorted by id
RenderOrderById(cases) == SortedById(cases)

\* the order in which the render loop visits the cases: for (const c of cases)
RenderOrder(cases) == cases

\* the lines of one case-mode report
CaseLines(diags, cases, elapsedMs) ==
    [i \in 1..Len(RenderOrder(cases)) |->
        CaseLine(diags, RenderOrder(cases)[i], elapsedMs)]

\* uri.toString()
UriToString(uri) == <<uri.scheme, "://">> \o Join([i \in 1..Len(uri.path) |-> <<"/", uri.path[i]>>], <<>>)

\* path.basename(uri.fsPath)
Basename(uri) == uri.path[Len(uri.path)]

\* `[XSS] ${path.basename(uri.fsPath)}:${line + 1}:${col + 1} ${diag.message}`
LocatorLine(uri, diag) ==
    <<"[XSS] ", Basename(uri), ":">> \o NumStr(diag.range.start.line + 1) \o <<":">>
      \o NumStr(diag.range.start.character + 1) \o <<" ">> \o diag.message

\* the flat render loop: two lines per diagnostic, in the order of diags,
\* up to the first diagnostic whose line doc.lineAt rejects
RECURSIVE FlatLines(_, _, _)
FlatLines(uri, doc, diags) ==
    IF diags = <<>> THEN <<>>
    ELSE IF LineAtThrows(doc, Head(diags).range.start.line) THEN <<>>
    ELSE <<LocatorLine(uri, Head(diags)),
           LineAtText(doc, Head(diags).range.start.line)>>
           \o FlatLines(uri, doc, Tail(diags))

\* whether the flat render loop ends by doc.lineAt throwing
FlatThrows(doc, diags) ==
    \E k \in 1..Len(diags) : LineAtThrows(doc, diags[k].range.start.line)

----------------------------------------------------------------------------
(* The inputs of the model *)

UriA == [scheme |-> "file", path |-> <<"w", "a.py">>]
UriB == [scheme |-> "file", path |-> <<"w", "notes.md">>]

Uris == {UriA, UriB}

\* document.languageId, which the host derives from the file name
LanguageId(uri) == IF uri = UriA THEN "python" ELSE "markdown"

LineCase1   == <<"#", " ", "C", "A", "S", "E", " ", "1">>
LineCase2   == <<" ", "#", "c", "a", "s", "e", "2">>
LineCode    == <<"x", " ", "=", " ", "1">>
LineNotCase == <<"#", " ", "C", "A", "S", "E", " ", "1", "x">>
LineNoId    == <<"#", " ", "C", "A", "S", "E">>
LineCase12  == <<"#", "\t", "C", "a", "s", "E", "1", "2", ":", " ", "x">>
LineHashYes == <<"#", " ", "y", "e", "s", " ", "1">>
LineHashX   == <<"#", "x", " ", "=", " ", "1">>

TextFlat  == <<LineCode, LineNotCase, LineCode>>
TextShort == <<LineCode, LineNoId>>
TextAsc   == <<LineCase1, LineCode, LineCase2>>
TextDesc  == <<LineCase2, LineCode, LineCase1>>

\* the texts the python document takes; the other document keeps TextAsc
Texts == {TextFlat, TextShort, TextDesc}

Position(line, character) == [line |-> line, character |-> character]

Diagnostic(line, from, to, message, source) ==
    [range |-> [start |-> Position(line, from), end |-> Position(line, to)],
     message |-> message, source |-> source]

DiagX1    == Diagnostic(1, 0, 1, <<"x">>, AnalyzerSource)
DiagY2    == Diagnostic(2, 0, 1, <<"y">>, AnalyzerSource)
DiagOther == Diagnostic(0, 0, 1, <<"x">>, "pylint")

\* The diagnostics the host may hold for a document, in the host's order.
\* The analyzer is started for python documents only (documentSelector), so
\* another document holds diagnostics of other tools at most.
DiagnosticLists(uri) ==
    IF LanguageId(uri) = "python"
    THEN {<<>>, <<DiagX1>>, <<DiagY2, DiagOther, DiagX1>>}
    ELSE {<<>>, <<DiagOther>>}

\* event.uris of a diagnostics-changed notification
UriBatches == {<<UriA>>, <<UriA, UriB>>, <<UriB, UriA>>}

Times == {k * ClockStep : k \in 0..MaxTicks}

----------------------------------------------------------------------------
(* Maps, the output channel, the terminal *)

EmptyMap == [k \in {} |-> 0]

\* Map.prototype.set
MapSet(m, k, v) == [x \in DOMAIN m \cup {k} |-> IF x = k THEN v ELSE m[x]]

\* LastReportIs with the map read at the report key instead of the uri key
LastReportIsByReportKey(reports, uriKey, key) ==
    key \in DOMAIN reports /\ reports[key] = key

\* reportKey === lastReports.get(uriKey)
LastReportIs(reports, uriKey, key) ==
    uriKey \in DOMAIN reports /\ reports[uriKey] = key

\* a call on the output channel, made by invocation b for uri
ChannelCall(op, b, uri, text) == [op |-> op, batch |-> b, uri |-> uri, text |-> text]

\* a call on terminal or emitter id, made by invocation b for uri
TerminalCall(op, id, b, uri, text) ==
    [op |-> op, id |-> id, batch |-> b, uri |-> uri, text |-> text]

\* ShowChannel without the test of shown: a reveal per rendered document
ShowChannelAlways(inv, b, uri) == <<ChannelCall("show", b, uri, <<>>)>>

\* if (!shown) { outputChannel.show(true); shown = true; }
ShowChannel(inv, b, uri) ==
    IF inv.shown THEN <<>> ELSE <<ChannelCall("show", b, uri, <<>>)>>

\* if (!terminalShown) { terminal.show(true); terminalShown = true; }
ShowTerminal(inv, b, uri, terminal) ==
    IF inv.terminalShown THEN <<>>
    ELSE <<TerminalCall("show", terminal, b, uri, <<>>)>>

\* outputChannel.appendLine(line), for each line
AppendLines(b, uri, lines) ==
    [i \in 1..Len(lines) |-> ChannelCall("appendLine", b, uri, lines[i])]

\* FireLines without the line terminator
FireLinesBare(writer, b, uri, lines) ==
    [i \in 1..Len(lines) |-> TerminalCall("fire", writer, b, uri, lines[i])]

\* writer.fire(`${line}\r\n`), for each line
FireLines(writer, b, uri, lines) ==
    [i \in 1..Len(lines) |->
        TerminalCall("fire", writer, b, uri, lines[i] \o <<"\r\n">>)]

\* the value of a variable that was never assigned, or was assigned undefined
Undefined == 0

\* a terminal of the host that the extension did not create
ShellTerminal == -1

\* getCaseTerminal: whether the owned pair is returned as it is
OwnsTerminal(st) ==
    st.caseTerminal # Undefined /\ st.caseTerminalWriter # Undefined

\* getCaseTerminal without the test for an owned pair: a terminal per call
GetCaseTerminalAlwaysNew(st) ==
    [st EXCEPT
        !.terminals = Append(st.terminals,
                             [name |-> "XSS LSP Cases",
                              pty |-> Len(st.writers) + 1,
                              state |-> "open"]),
        !.writers = Append(st.writers, "live"),
        !.caseTerminal = Len(st.terminals) + 1,
        !.caseTerminalWriter = Len(st.writers) + 1]

\* getCaseTerminal: the state (of the extension and of the host's terminals)
\* after the call; the pair it returns is the owned pair of that state
GetCaseTerminal(st) ==
    IF OwnsTerminal(st) THEN st
    ELSE [st EXCEPT
            !.terminals = Append(st.terminals,
                                 [name |-> "XSS LSP Cases",
                                  pty |-> Len(st.writers) + 1,
                                  state |-> "open"]),
            !.writers = Append(st.writers, "live"),
            !.caseTerminal = Len(st.terminals) + 1,
            !.caseTerminalWriter = Len(st.writers) + 1]

----------------------------------------------------------------------------
(* The state after activate() has returned *)

Init ==
    /\ docText = [u \in Uris |-> IF u = UriA THEN TextFlat ELSE TextAsc]
    /\ diagnostics = [u \in Uris |-> <<>>]
    /\ now = 0
    /\ lastReports = EmptyMap
    /\ lastChangeAt = EmptyMap
    /\ caseTerminal = Undefined
    /\ caseTerminalWriter = Undefined
    /\ terminals = <<>>
    /\ writers = <<>>
    /\ outputChannel = <<>>
    /\ terminalLog = <<>>
    /\ batches = <<>>
    /\ probe = [fn |-> "none"]

----------------------------------------------------------------------------
(* reportXssDiagnostics *)

\* what the iterations of reportXssDiagnostics read and write, apart from the
\* sinks
ProgramState ==
    [lastReports |-> lastReports, lastChangeAt |-> lastChangeAt, now |-> now,
     caseTerminal |-> caseTerminal, caseTerminalWriter |-> caseTerminalWriter,
     terminals |-> terminals, writers |-> writers]

\* the invocation as it suspends at its first openTextDocument; outputChannel
\* is set by activate, so the early return of line 96 is not taken
StartReport(uris) ==
    [uris |-> uris, i |-> 1, shown |-> FALSE, terminalShown |-> FALSE,
     state |-> "pending", error |-> "none"]

\* the invocation after the iteration for uris[i]: suspended at the next
\* openTextDocument, or returned
NextIteration(inv, shown, terminalShown) ==
    [inv EXCEPT !.i = inv.i + 1,
                !.shown = shown,
                !.terminalShown = terminalShown,
                !.state = IF inv.i + 1 > Len(inv.uris) THEN "fulfilled" ELSE "pending"]

\* the invocation after an exception left the async function
Rejected(inv, shown, terminalShown, error) ==
    [inv EXCEPT !.shown = shown, !.terminalShown = terminalShown,
                !.state = "rejected", !.error = error]

\* the result of one iteration: the state after it, the invocation after it,
\* and the calls it made on the output channel and on the terminal
Iteration(st, inv, channelCalls, terminalCalls) ==
    [st |-> st, inv |-> inv, channelCalls |-> channelCalls,
     terminalCalls |-> terminalCalls]

\* `continue` with nothing reported
SkipDocument(st, inv) ==
    Iteration(st, NextIteration(inv, inv.shown, inv.terminalShown), <<>>, <<>>)

\* lines 109-134: the iteration for a document with cases
CaseModePass(st, inv, b, uri, uriKey, diags, cases) ==
    LET elapsedMs == ElapsedMs(st.lastChangeAt, st.now, uriKey)
        reportKey == CaseReportKey(cases, diags)
        stored    == [st EXCEPT !.lastReports = MapSet(st.lastReports, uriKey, reportKey)]
        acquired  == GetCaseTerminal(stored)
        lines     == CaseLines(diags, cases, elapsedMs)
    IN  IF LastReportIs(st.lastReports, uriKey, reportKey)
        THEN SkipDocument(st, inv)
        ELSE Iteration(acquired,
                       NextIteration(inv, TRUE, TRUE),
                       ShowChannel(inv, b, uri) \o AppendLines(b, uri, lines),
                       ShowTerminal(inv, b, uri, acquired.caseTerminal)
                         \o FireLines(acquired.caseTerminalWriter, b, uri, lines))

\* lines 136-160: the iteration for a document without cases
FlatModePass(st, inv, b, uri, uriKey, doc, diags) ==
    LET fingerprint == FlatFingerprint(diags)
        stored      == [st EXCEPT
                          !.lastReports = MapSet(st.lastReports, uriKey, fingerprint)]
    IN  IF Len(diags) = 0 \/ LastReportIs(st.lastReports, uriKey, fingerprint)
        THEN SkipDocument(st, inv)
        ELSE Iteration(stored,
                       IF FlatThrows(doc, diags)
                       THEN Rejected(inv, TRUE, inv.terminalShown, "lineAt")
                       ELSE NextIteration(inv, TRUE, inv.terminalShown),
                       ShowChannel(inv, b, uri)
                         \o AppendLines(b, uri, FlatLines(uri, doc, diags)),
                       <<>>)

\* lines 102-160: the iteration of invocation b (in state inv) for uri, whose
\* text is lines and whose diagnostics, of all sources, are all
ReportDocument(st, inv, b, uri, lines, all) ==
    LET uriKey == UriToString(uri)
        doc    == [uri |-> uri, lines |-> lines]
        diags  == FilteredDiagnostics(all)
        cases  == extractCases(doc)
    IN  IF Len(cases) > 0
        THEN CaseModePass(st, inv, b, uri, uriKey, diags, cases)
        ELSE FlatModePass(st, inv, b, uri, uriKey, doc, diags)

\* onDidChangeDiagnostics: the host has replaced the diagnostics of the first
\* of event.uris by ds, and the handler starts reportXssDiagnostics without
\* awaiting it
DidChangeDiagnostics(uris, ds) ==
    /\ Len(batches) < MaxBatches
    /\ ds \in DiagnosticLists(uris[1])
    /\ diagnostics' = [diagnostics EXCEPT ![uris[1]] = ds]
    /\ batches' = Append(batches, StartReport(uris))
    /\ UNCHANGED <<docText, now, lastReports, lastChangeAt, caseTerminal,
                   caseTerminalWriter, terminals, writers, outputChannel,
                   terminalLog, probe>>

\* OpenTextDocumentResolves with an await in the render loop: an iteration
\* that makes more than two calls on the output channel suspends after the
\* second and makes its other calls, on both sinks, when it is resumed; the
\* calls it has yet to make are kept in probe meanwhile
OpenTextDocumentResolvesWithAwait(b) ==
    \/ /\ probe.fn = "await"
       /\ probe.batch = b
       /\ outputChannel' = outputChannel \o probe.channelCalls
       /\ terminalLog' = terminalLog \o probe.terminalCalls
       /\ probe' = [fn |-> "none"]
       /\ UNCHANGED <<docText, diagnostics, now, lastReports, lastChangeAt,
                      caseTerminal, caseTerminalWriter, terminals, writers, batches>>
    \/ /\ b \in 1..Len(batches)
       /\ batches[b].state = "pending"
       /\ probe.fn = "await" => probe.batch # b
       /\ \E r \in {ReportDocument(ProgramState, batches[b], b,
                                    batches[b].uris[batches[b].i],
                                    docText[batches[b].uris[batches[b].i]],
                                    diagnostics[batches[b].uris[batches[b].i]])} :
              /\ lastReports' = r.st.lastReports
              /\ caseTerminal' = r.st.caseTerminal
              /\ caseTerminalWriter' = r.st.caseTerminalWriter
              /\ terminals' = r.st.terminals
              /\ writers' = r.st.writers
              /\ batches' = [batches EXCEPT ![b] = r.inv]
              /\ IF probe.fn = "none" /\ Len(r.channelCalls) > 2
                 THEN /\ outputChannel' = outputChannel \o SubSeq(r.channelCalls, 1, 2)
                      /\ terminalLog' = terminalLog
                      /\ probe' = [fn |-> "await", batch |-> b,
                                   channelCalls |-> SubSeq(r.channelCalls, 3,
                                                           Len(r.channelCalls)),
                                   terminalCalls |-> r.terminalCalls]
                 ELSE /\ outputChannel' = outputChannel \o r.channelCalls
                      /\ terminalLog' = terminalLog \o r.terminalCalls
                      /\ probe' = probe
       /\ UNCHANGED <<docText, diagnostics, now, lastChangeAt>>

\* openTextDocument(uri) resolves and invocation b runs the iteration for
\* uris[i], up to the next await or to the end of the function
OpenTextDocumentResolves(b) ==
    /\ b \in 1..Len(batches)
    /\ batches[b].state = "pending"
    /\ \E r \in {ReportDocument(ProgramState, batches[b], b,
                                 batches[b].uris[batches[b].i],
                                 docText[batches[b].uris[batches[b].i]],
                                 diagnostics[batches[b].uris[batches[b].i]])} :
           /\ lastReports' = r.st.lastReports
           /\ caseTerminal' = r.st.caseTerminal
           /\ caseTerminalWriter' = r.st.caseTerminalWriter
           /\ terminals' = r.st.terminals
           /\ writers' = r.st.writers
           /\ outputChannel' = outputChannel \o r.channelCalls
           /\ terminalLog' = terminalLog \o r.terminalCalls
           /\ batches' = [batches EXCEPT ![b] = r.inv]
    /\ UNCHANGED <<docText, diagnostics, now, lastChangeAt, probe>>

\* openTextDocument(uri) rejects: the await throws, nothing catches it, and the
\* promise of invocation b is rejected with the rest of event.uris unvisited
OpenTextDocumentRejects(b) ==
    /\ b \in 1..Len(batches)
    /\ batches[b].state = "pending"
    /\ batches' = [batches EXCEPT
            ![b] = Rejected(@, batches[b].shown, batches[b].terminalShown,
                            "openTextDocument")]
    /\ UNCHANGED <<docText, diagnostics, now, lastReports, lastChangeAt,
                   caseTerminal, caseTerminalWriter, terminals, writers,
                   outputChannel, terminalLog, probe>>

----------------------------------------------------------------------------
(* The other handlers registered by activate *)

\* RecordChange with the file name as the key of the map
RecordChangeByBasename(uri) ==
    lastChangeAt' =
        IF LanguageId(uri) = "python"
        THEN MapSet(lastChangeAt, <<Basename(uri)>>, now)
        ELSE lastChangeAt

\* lastChangeAt.set(uri.toString(), Date.now()) behind the languageId test
RecordChange(uri) ==
    lastChangeAt' =
        IF LanguageId(uri) = "python"
        THEN MapSet(lastChangeAt, UriToString(uri), now)
        ELSE lastChangeAt

\* onDidChangeTextDocument: the text of the document is now text
DidChangeTextDocument(uri, text) ==
    /\ docText' = [docText EXCEPT ![uri] = text]
    /\ RecordChange(uri)
    /\ UNCHANGED <<diagnostics, now, lastReports, caseTerminal, caseTerminalWriter,
                   terminals, writers, outputChannel, terminalLog, batches, probe>>

\* onDidSaveTextDocument
DidSaveTextDocument(uri) ==
    /\ RecordChange(uri)
    /\ UNCHANGED <<docText, diagnostics, now, lastReports, caseTerminal,
                   caseTerminalWriter, terminals, writers, outputChannel,
                   terminalLog, batches, probe>>

\* onDidOpenTextDocument
DidOpenTextDocument(uri) ==
    /\ RecordChange(uri)
    /\ UNCHANGED <<docText, diagnostics, now, lastReports, caseTerminal,
                   caseTerminalWriter, terminals, writers, outputChannel,
                   terminalLog, batches, probe>>

\* DidCloseTerminal with a handler that does not release the owned terminal
DidCloseTerminalKeepsOwned(t) ==
    /\ \/ t = ShellTerminal
       \/ /\ t \in 1..Len(terminals)
          /\ terminals[t].state = "open"
          /\ Len(terminals) < MaxTerminals
    /\ terminals' = IF t = ShellTerminal THEN terminals
                    ELSE [terminals EXCEPT ![t].state = "closed"]
    /\ UNCHANGED <<docText, diagnostics, now, lastReports, lastChangeAt,
                   caseTerminal, caseTerminalWriter, writers,
                   outputChannel, terminalLog, batches, probe>>

\* onDidCloseTerminal: the host has closed terminal t, one of the extension's
\* or another.  A terminal of the extension is closed only while the host may
\* still create the next one.
DidCloseTerminal(t) ==
    /\ \/ t = ShellTerminal
       \/ /\ t \in 1..Len(terminals)
          /\ terminals[t].state = "open"
          /\ Len(terminals) < MaxTerminals
    /\ terminals' = IF t = ShellTerminal THEN terminals
                    ELSE [terminals EXCEPT ![t].state = "closed"]
    /\ IF t = caseTerminal
       THEN /\ caseTerminal' = Undefined
            /\ caseTerminalWriter' = Undefined
            /\ writers' = IF caseTerminalWriter # Undefined
                          THEN [writers EXCEPT ![caseTerminalWriter] = "disposed"]
                          ELSE writers
       ELSE UNCHANGED <<caseTerminal, caseTerminalWriter, writers>>
    /\ UNCHANGED <<docText, diagnostics, now, lastReports, lastChangeAt,
                   outputChannel, terminalLog, batches, probe>>

----------------------------------------------------------------------------
(* The host *)

\* time passes
Tick ==
    /\ now < MaxTicks * ClockStep
    /\ now' = now + ClockStep
    /\ UNCHANGED <<docText, diagnostics, lastReports, lastChangeAt, caseTerminal,
                   caseTerminalWriter, terminals, writers, outputChannel,
                   terminalLog, batches, probe>>

Next ==
    \/ \E uris \in UriBatches : \E ds \in DiagnosticLists(uris[1]) :
          DidChangeDiagnostics(uris, ds)
    \/ \E b \in 1..MaxBatches : OpenTextDocumentResolves(b)
    \/ \E b \in 1..MaxBatches : OpenTextDocumentRejects(b)
    \/ \E text \in Texts : DidChangeTextDocument(UriA, text)
    \/ \E uri \in Uris : DidSaveTextDocument(uri)
    \/ \E uri \in Uris : DidOpenTextDocument(uri)
    \/ \E t \in (1..MaxTerminals) \cup {ShellTerminal} : DidCloseTerminal(t)
    \/ Tick

Spec == Init /\ [][Next]_vars

\* Date.now() is the wall clock, which the system may set back
ClockSetBack ==
    /\ now > 0
    /\ now' = now - ClockStep
    /\ UNCHANGED <<docText, diagnostics, lastReports, lastChangeAt, caseTerminal,
                   caseTerminalWriter, terminals, writers, outputChannel,
                   terminalLog, batches, probe>>

NextClock == Next \/ ClockSetBack

\* the extension under a clock that may also be set back
SpecClock == Init /\ [][NextClock]_vars

----------------------------------------------------------------------------
(* extractCases on its own: the python document holds any text of up to     *)
(* MaxLines lines over a few kinds of line, or the 30-line text of the      *)
(* specification's example, and extractCases is called on a document.       *)

CaseLineKinds ==
    {LineCase1, LineCase2, LineCode, LineNotCase, LineNoId, LineCase12,
     LineHashYes, LineHashX}

\* 30 lines with markers on lines 2, 10 and 25 (counted from 0)
Text30 ==
    [i \in 1..30 |->
        IF i - 1 = 2 THEN LineCase1
        ELSE IF i - 1 = 10 THEN LineCase2
        ELSE IF i - 1 = 25 THEN LineCase12
        ELSE LineCode]

CaseTexts ==
    UNION {[1..n -> CaseLineKinds] : n \in 1..MaxLines} \cup {Text30}

InitCases ==
    /\ docText \in {[u \in Uris |-> IF u = UriA THEN t ELSE TextAsc] : t \in CaseTexts}
    /\ diagnostics = [u \in Uris |-> <<>>]
    /\ now = 0
    /\ lastReports = EmptyMap
    /\ lastChangeAt = EmptyMap
    /\ caseTerminal = Undefined
    /\ caseTerminalWriter = Undefined
    /\ terminals = <<>>
    /\ writers = <<>>
    /\ outputChannel = <<>>
    /\ terminalLog = <<>>
    /\ batches = <<>>
    /\ probe = [fn |-> "none"]

\* const cases = extractCases(doc), for the document of uri
CallExtractCases(uri) ==
    /\ probe' = [fn |-> "extractCases",
                 doc |-> [uri |-> uri, lines |-> docText[uri]],
                 result |-> extractCases([uri |-> uri, lines |-> docText[uri]])]
    /\ UNCHANGED <<docText, diagnostics, now, lastReports, lastChangeAt,
                   caseTerminal, caseTerminalWriter, terminals, writers,
                   outputChannel, terminalLog, batches>>

NextCases == \E uri \in Uris : CallExtractCases(uri)

SpecCases == InitCases /\ [][NextCases]_vars

----------------------------------------------------------------------------
(* The flat fingerprint on its own: the python document holds up to         *)
(* MaxDiags diagnostics of the analyzer, at two positions, whose messages   *)
(* are short words or hold the characters ":" and "|" that the fingerprint  *)
(* is built with.                                                           *)

MessageA     == <<"a">>
MessageC     == <<"c">>
MessageAC    == <<"a", "|", "1", ":", "0", ":", "1", ":", "1", ":", "c">>
MessageCA    == <<"c", "|", "1", ":", "0", ":", "1", ":", "1", ":", "a">>
MessageACA   == <<"a", "|", "1", ":", "0", ":", "1", ":", "1", ":", "c",
                  "|", "1", ":", "0", ":", "1", ":", "1", ":", "a">>

Messages == {MessageA, MessageC, MessageAC, MessageCA, MessageACA}

FingerprintDiags ==
    {Diagnostic(line, 0, 1, m, AnalyzerSource) : line \in {1, 2}, m \in Messages}

FingerprintInputs == UNION {[1..n -> FingerprintDiags] : n \in 1..MaxDiags}

InitFingerprint ==
    /\ docText = [u \in Uris |-> IF u = UriA THEN TextFlat ELSE TextAsc]
    /\ diagnostics \in {[u \in Uris |-> IF u = UriA THEN ds ELSE <<>>] :
                            ds \in FingerprintInputs}
    /\ now = 0
    /\ lastReports = EmptyMap
    /\ lastChangeAt = EmptyMap
    /\ caseTerminal = Undefined
    /\ caseTerminalWriter = Undefined
    /\ terminals = <<>>
    /\ writers = <<>>
    /\ outputChannel = <<>>
    /\ terminalLog = <<>>
    /\ batches = <<>>
    /\ probe = [fn |-> "none"]

\* const fingerprint = diagnostics.map(...).sort().join("|"), for the
\* diagnostics of the analyzer that the document of uri has
CallFlatFingerprint(uri) ==
    /\ Len(FilteredDiagnostics(diagnostics[uri])) > 0
    /\ probe' = [fn |-> "FlatFingerprint",
                 diags |-> FilteredDiagnostics(diagnostics[uri]),
                 result |-> FlatFingerprint(FilteredDiagnostics(diagnostics[uri]))]
    /\ UNCHANGED <<docText, diagnostics, now, lastReports, lastChangeAt,
                   caseTerminal, caseTerminalWriter, terminals, writers,
                   outputChannel, terminalLog, batches>>

NextFingerprint == \E uri \in Uris : CallFlatFingerprint(uri)

SpecFingerprint == InitFingerprint /\ [][NextFingerprint]_vars

----------------------------------------------------------------------------
(* The iteration of reportXssDiagnostics on its own: the host changes the   *)
(* text and the diagnostics of the python document, time passes, and the    *)
(* iteration is evaluated for a document with nothing reported before; the  *)
(* last two evaluations of the same document are kept.                      *)

\* the subsequence of calls with operation op
RECURSIVE CallsOf(_, _)
CallsOf(calls, op) ==
    IF calls = <<>> THEN <<>>
    ELSE IF Head(calls).op = op THEN <<Head(calls)>> \o CallsOf(Tail(calls), op)
    ELSE CallsOf(Tail(calls), op)

\* the texts of the calls
TextsOf(calls) == [i \in 1..Len(calls) |-> calls[i].text]

NoEvaluation == [mode |-> "none"]

\* the value of lastReports.get(uriKey) when the map has no such key
NoKey == <<"undefined">>

\* what the iteration r for uriKey stored and wrote
Evaluation(r, uriKey, mode) ==
    [mode  |-> mode,
     key   |-> IF uriKey \in DOMAIN r.st.lastReports
               THEN r.st.lastReports[uriKey] ELSE NoKey,
     lines |-> TextsOf(CallsOf(r.channelCalls, "appendLine")),
     fired |-> TextsOf(CallsOf(r.terminalCalls, "fire")),
     threw |-> r.inv.state = "rejected"]

\* the host replaces the diagnostics of uri
HostSetsDiagnostics(uri, ds) ==
    /\ ds \in DiagnosticLists(uri)
    /\ diagnostics' = [diagnostics EXCEPT ![uri] = ds]
    /\ UNCHANGED <<docText, now, lastReports, lastChangeAt, caseTerminal,
                   caseTerminalWriter, terminals, writers, outputChannel,
                   terminalLog, batches, probe>>

\* lines 102-160 for uri, with no report stored for any document
CallReportDocument(uri) ==
    /\ \E r \in {ReportDocument([ProgramState EXCEPT !.lastReports = EmptyMap],
                                 StartReport(<<uri>>), 0, uri, docText[uri],
                                 diagnostics[uri])} :
          probe' = [fn     |-> "reportXssDiagnostics",
                    uri    |-> uri,
                    first  |-> IF probe.fn = "reportXssDiagnostics" /\ probe.uri = uri
                               THEN probe.second ELSE NoEvaluation,
                    second |-> Evaluation(r, UriToString(uri),
                                 IF Len(extractCases([uri |-> uri, lines |-> docText[uri]])) > 0
                                 THEN "case" ELSE "flat")]
    /\ UNCHANGED <<docText, diagnostics, now, lastReports, lastChangeAt,
                   caseTerminal, caseTerminalWriter, terminals, writers,
                   outputChannel, terminalLog, batches>>

NextEvaluations ==
    \/ \E text \in Texts \cup {TextAsc} : DidChangeTextDocument(UriA, text)
    \/ \E uri \in Uris : \E ds \in DiagnosticLists(uri) : HostSetsDiagnostics(uri, ds)
    \/ \E uri \in Uris : CallReportDocument(uri)
    \/ Tick

SpecEvaluations == Init /\ [][NextEvaluations]_vars

----------------------------------------------------------------------------
(* The matching of diagnostics with cases: the python document holds any    *)
(* text of CaseTexts and up to MaxDiags diagnostics of the analyzer, on any *)
(* line from the first to the line after the last line of the longest of    *)
(* the short texts (diagnostics are published for the text the analyzer     *)
(* saw, which may have been longer), and the iteration is evaluated.        *)

MatchingDiags ==
    {Diagnostic(line, 0, 1, <<"x">>, AnalyzerSource) : line \in 0..MaxLines}

MatchingInputs == UNION {[1..n -> MatchingDiags] : n \in 0..MaxDiags}

InitMatching ==
    /\ docText \in {[u \in Uris |-> IF u = UriA THEN t ELSE TextAsc] : t \in CaseTexts}
    /\ diagnostics \in {[u \in Uris |-> IF u = UriA THEN ds ELSE <<>>] :
                            ds \in MatchingInputs}
    /\ now = 0
    /\ lastReports = EmptyMap
    /\ lastChangeAt = EmptyMap
    /\ caseTerminal = Undefined
    /\ caseTerminalWriter = Undefined
    /\ terminals = <<>>
    /\ writers = <<>>
    /\ outputChannel = <<>>
    /\ terminalLog = <<>>
    /\ batches = <<>>
    /\ probe = [fn |-> "none"]

NextMatching == \E uri \in Uris : CallReportDocument(uri)

SpecMatching == InitMatching /\ [][NextMatching]_vars

----------------------------------------------------------------------------
(* Claims *)

\* this step is an iteration of invocation b: its openTextDocument resolved
Visited(b) ==
    /\ b \in 1..Len(batches)
    /\ batches[b].state = "pending"
    /\ Len(batches') = Len(batches)
    /\ batches'[b] # batches[b]
    /\ batches'[b].error # "openTextDocument"

\* the document of the iteration that invocation b is suspended before
VisitedUri(b) == batches[b].uris[batches[b].i]

\* this step is an iteration of invocation b that was not suppressed
Rendered(b) == Visited(b) /\ lastReports' # lastReports

\* the calls this step makes on the output channel and on the terminal
NewChannelCalls ==
    SubSeq(outputChannel', Len(outputChannel) + 1, Len(outputChannel'))
NewTerminalCalls ==
    SubSeq(terminalLog', Len(terminalLog) + 1, Len(terminalLog'))

\* the document of uri as the host holds it, its cases and its diagnostics of
\* the analyzer
CurrentDoc(uri) == [uri |-> uri, lines |-> docText[uri]]
CurrentCases(uri) == extractCases(CurrentDoc(uri))
CurrentDiags(uri) == FilteredDiagnostics(diagnostics[uri])

\* the lines of a document that the marker pattern matches, counted from 0
MarkerLines(doc) ==
    {l \in 0..(LineCount(doc) - 1) : MatchCase(LineAtText(doc, l)) # NoMatch}

\* C6 (case range derivation): extractCases returns one case per marker
\* line, in strictly ascending startLine order, each with the id written on
\* its marker and with startLine <= endLine; every case but the last ends on
\* the line before the next one starts and the last ends on the last line of
\* the document; markers on lines 2, 10, 25 of 30 lines give 2..9, 10..24,
\* 25..29; a document with no marker gives the empty sequence.
C6_CaseRanges ==
    probe.fn = "extractCases" =>
        LET doc == probe.doc
            cs  == probe.result
        IN  /\ {cs[i].startLine : i \in 1..Len(cs)} = MarkerLines(doc)
            /\ Len(cs) = Cardinality(MarkerLines(doc))
            /\ \A i \in 1..Len(cs) :
                 /\ cs[i].startLine <= cs[i].endLine
                 /\ NumStr(cs[i].id) = MatchCase(LineAtText(doc, cs[i].startLine))
                 /\ i < Len(cs) =>
                      /\ cs[i].startLine < cs[i + 1].startLine
                      /\ cs[i].endLine = cs[i + 1].startLine - 1
                 /\ i = Len(cs) => cs[i].endLine = LineCount(doc) - 1
            /\ MarkerLines(doc) = {} => cs = <<>>
            /\ doc.lines = Text30 =>
                 [i \in 1..Len(cs) |-> <<cs[i].startLine, cs[i].endLine>>]
                   = <<(<<2, 9>>), (<<10, 24>>), (<<25, 29>>)>>

\* extractCases was called on the 30-line example and returned three cases
C6_Witness ==
    /\ probe.fn = "extractCases"
    /\ probe.doc.lines = Text30
    /\ Len(probe.result) = 3

\* what a run of the iteration for uri by a new invocation does in state st
RunOn(st, uri) ==
    ReportDocument(st, StartReport(<<uri>>), 0, uri, docText[uri], diagnostics[uri])

\* a run of the iteration for uri in state st calls neither sink (so it
\* writes nothing and reveals nothing) and leaves the state as it is
IsNoOp(st, uri) ==
    \E r \in {RunOn(st, uri)} :
        /\ r.channelCalls = <<>>
        /\ r.terminalCalls = <<>>
        /\ r.st = st

\* one more run of the iteration for uri would be a no-op now
RerunIsNoOp(uri) == IsNoOp(ProgramState, uri)

\* C1 (idempotence of the render pass): in every state the extension
\* reaches and for every document, in case mode or in flat mode, when the
\* iteration of reportXssDiagnostics runs for the document and then runs
\* again, at any later time, with the text and the diagnostics of the
\* document as they were, the second run writes nothing to the output
\* channel, fires nothing on the terminal, reveals neither and leaves
\* lastReports and the terminal as the first run left them.
C1_Idempotence ==
    \A uri \in Uris :
        \E first \in {RunOn(ProgramState, uri)} :
            \A later \in {t \in Times : t >= now} :
                IsNoOp([first.st EXCEPT !.now = later], uri)

\* two invocations for the python document have returned, the document has
\* cases or diagnostics, and the output channel holds the lines of one of
\* the two only
C1_Witness ==
    /\ Len(batches) = 2
    /\ \A b \in 1..2 : batches[b].uris = <<UriA>> /\ batches[b].state = "fulfilled"
    /\ Len(CurrentCases(UriA)) > 0 \/ Len(CurrentDiags(UriA)) > 0
    /\ RerunIsNoOp(UriA)
    /\ CallsOf(outputChannel, "appendLine") # <<>>
    /\ \A k \in 1..Len(outputChannel) : outputChannel[k].batch = 1

\* the key of the outcome of the document of uri as the claims describe it:
\* the case key if it has cases, the flat key of its diagnostics if not
OutcomeKey(uri) ==
    IF Len(CurrentCases(uri)) > 0
    THEN CaseReportKey(CurrentCases(uri), CurrentDiags(uri))
    ELSE FlatFingerprint(CurrentDiags(uri))

\* C2 (key equality is the sole dedup gate): an iteration for a document
\* whose new key differs from the key stored for it (here: with a key
\* stored) renders the document and stores the new key.
C2_KeyGate ==
    [][\A b \in 1..Len(batches) :
          (/\ Visited(b)
           /\ UriToString(VisitedUri(b)) \in DOMAIN lastReports
           /\ lastReports[UriToString(VisitedUri(b))] # OutcomeKey(VisitedUri(b)))
          => /\ lastReports'[UriToString(VisitedUri(b))] = OutcomeKey(VisitedUri(b))
             /\ NewChannelCalls # <<>>
      ]_vars

\* this step is openTextDocument rejecting for invocation b
FetchFailed(b) ==
    /\ b \in 1..Len(batches)
    /\ batches[b].state = "pending"
    /\ Len(batches') = Len(batches)
    /\ batches'[b].error = "openTextDocument"

\* C3 (batch isolation): when the fetch of a document fails and event.uris
\* holds documents after it, the invocation goes on to the next document.
C3_BatchIsolation ==
    [][\A b \in 1..Len(batches) :
          (FetchFailed(b) /\ batches[b].i < Len(batches[b].uris))
          => /\ batches'[b].state = "pending"
             /\ batches'[b].i = batches[b].i + 1
      ]_vars

\* whether a line written to a sink is the line of a case
IsCaseLine(line) == \E k \in 1..Len(line) : line[k] = "beon keiseu -> "

\* the label of a case line: the part after "beon keiseu -> "
LabelOf(line) == line[(CHOOSE k \in 1..Len(line) : line[k] = "beon keiseu -> ") + 1]

\* the case number of a case line: the digits after "### "
IdOf(line) ==
    DigitsToNumber(SubSeq(line, 2,
        (CHOOSE k \in 1..Len(line) : line[k] = "beon keiseu -> ") - 1))

\* whether a diagnostic of the analyzer starts on a line of the range of c
IssueIn(uri, c) ==
    \E k \in 1..Len(diagnostics[uri]) :
        /\ diagnostics[uri][k].source = AnalyzerSource
        /\ diagnostics[uri][k].range.start.line \in c.startLine..c.endLine

\* In a case-mode iteration that renders, one line is appended per case, and
\* the line of a case is labelled withIssue if a diagnostic starts in its
\* range and without if none does; the terminal is fired the same lines.
CaseLabels(withIssue, without) ==
    \A b \in 1..Len(batches) :
        (Rendered(b) /\ Len(CurrentCases(VisitedUri(b))) > 0) =>
            LET cs    == CurrentCases(VisitedUri(b))
                lines == TextsOf(CallsOf(NewChannelCalls, "appendLine"))
                fired == TextsOf(CallsOf(NewTerminalCalls, "fire"))
            IN  /\ Len(lines) = Len(cs)
                /\ fired = [i \in 1..Len(lines) |-> lines[i] \o <<"\r\n">>]
                /\ \A c \in {cs[i] : i \in 1..Len(cs)} :
                     \E i \in 1..Len(lines) :
                         /\ IdOf(lines[i]) = c.id
                         /\ LabelOf(lines[i]) =
                              IF IssueIn(VisitedUri(b), c) THEN withIssue ELSE without

\* C4 as claimed (case pass/fail labelling): a case with a diagnostic in its
\* range is written with the "fail" label and a case with none with the
\* "pass" label.
C4_FailWhenIssue == [][CaseLabels(StatusFailure, StatusSuccess)]_vars

\* C4 as amended: a case with a diagnostic in its range is written with the
\* success label and a case with none with the failure label, in the same
\* iteration.
C4_SuccessWhenIssue == [][CaseLabels(StatusSuccess, StatusFailure)]_vars

\* the output channel holds a line labelled success followed by a line
\* labelled failure, of the same invocation and document
C4_Witness ==
    \E k \in 1..(Len(outputChannel) - 1) :
        /\ outputChannel[k].op = "appendLine"
        /\ outputChannel[k + 1].op = "appendLine"
        /\ outputChannel[k].batch = outputChannel[k + 1].batch
        /\ outputChannel[k].uri = outputChannel[k + 1].uri
        /\ IsCaseLine(outputChannel[k].text)
        /\ IsCaseLine(outputChannel[k + 1].text)
        /\ LabelOf(outputChannel[k].text) = StatusSuccess
        /\ LabelOf(outputChannel[k + 1].text) = StatusFailure

\* the terminals of the extension that the host has not closed
OpenTerminals == {t \in 1..Len(terminals) : terminals[t].state = "open"}

\* at most one terminal of the extension is open, and it is the owned one,
\* with its emitter live
OneTerminal ==
    /\ Cardinality(OpenTerminals) <= 1
    /\ (caseTerminal = Undefined) = (caseTerminalWriter = Undefined)
    /\ caseTerminal # Undefined =>
         /\ OpenTerminals = {caseTerminal}
         /\ terminals[caseTerminal].pty = caseTerminalWriter
         /\ writers[caseTerminalWriter] = "live"
    /\ caseTerminal = Undefined => OpenTerminals = {}

\* C5 (terminal lifecycle): the extension never has more than one open
\* terminal; a closed notification for the owned terminal releases it; and a
\* case-mode iteration that renders while none is owned returns normally,
\* creates a terminal that did not exist before, owns it and fires all its
\* lines on the emitter of that terminal.
C5_TerminalLifecycle ==
    /\ []OneTerminal
    /\ [][/\ \A t \in 1..Len(terminals) :
                (t = caseTerminal /\ terminals[t].state = "open"
                   /\ terminals'[t].state = "closed")
                => caseTerminal' = Undefined /\ caseTerminalWriter' = Undefined
          /\ \A b \in 1..Len(batches) :
                (/\ Rendered(b)
                 /\ Len(CurrentCases(VisitedUri(b))) > 0
                 /\ caseTerminal = Undefined)
                => /\ batches'[b].state # "rejected"
                   /\ Len(terminals') = Len(terminals) + 1
                   /\ caseTerminal' = Len(terminals')
                   /\ terminals'[caseTerminal'].state = "open"
                   /\ NewTerminalCalls # <<>>
                   /\ \A k \in 1..Len(NewTerminalCalls) :
                        NewTerminalCalls[k].id =
                          IF NewTerminalCalls[k].op = "fire"
                          THEN terminals'[caseTerminal'].pty
                          ELSE caseTerminal'
         ]_vars

\* the first terminal was closed, a second one is open and owned, and lines
\* were fired on its emitter
C5_Witness ==
    /\ Len(terminals) = 2
    /\ terminals[1].state = "closed"
    /\ caseTerminal = 2
    /\ \E k \in 1..Len(terminalLog) :
          terminalLog[k].op = "fire" /\ terminalLog[k].id = terminals[2].pty

\* the cases in ascending startLine order, which is the order of their
\* markers in the document
ByStartLine(cases) ==
    [i \in 1..Len(cases) |->
        cases[CHOOSE j \in 1..Len(cases) :
                Cardinality({k \in 1..Len(cases) :
                    cases[k].startLine < cases[j].startLine}) = i - 1]]

\* the key entry of a case as the specification describes it
ExpectedEntry(uri, c) ==
    NumStr(c.id) \o <<":">> \o (IF IssueIn(uri, c) THEN <<"1">> ELSE <<"0">>)

\* the cases in the order named: "id" or "marker"
Ordered(cases, order) ==
    IF order = "id" THEN SortedById(cases) ELSE ByStartLine(cases)

\* the key stored by a case-mode iteration that renders lists the entries of
\* the cases in the order named, joined by "|"
StoredCaseKey(order) ==
    \A b \in 1..Len(batches) :
        (Rendered(b) /\ Len(CurrentCases(VisitedUri(b))) > 0) =>
            lastReports'[UriToString(VisitedUri(b))] =
                Join([i \in 1..Len(CurrentCases(VisitedUri(b))) |->
                        ExpectedEntry(VisitedUri(b),
                                      Ordered(CurrentCases(VisitedUri(b)), order)[i])],
                     <<"|">>)

\* C7 as claimed (the case-mode key is ordered by id): the key lists the
\* "<id>:<0|1>" entries in ascending id order, whatever the order of the
\* markers in the document.
C7_KeyInIdOrder == [][StoredCaseKey("id")]_vars

\* C7 as amended: the key lists the "<id>:<0|1>" entries in the order of the
\* markers in the document (ascending startLine), so two documents with the
\* same ids and flags and their markers in a different order have different
\* keys.
C7_KeyInMarkerOrder == [][StoredCaseKey("marker")]_vars

\* the key stored for the python document starts with the entry of case 2
\* and goes on with the entry of case 1
C7_Witness ==
    /\ UriToString(UriA) \in DOMAIN lastReports
    /\ Len(lastReports[UriToString(UriA)]) = 7
    /\ lastReports[UriToString(UriA)][1] = "2"
    /\ lastReports[UriToString(UriA)][4] = "|"
    /\ lastReports[UriToString(UriA)][5] = "1"
    /\ lastReports[UriToString(UriA)][6] = ":"

\* the lines of a case-mode iteration that renders are those of the cases in
\* the order named, on the output channel and on the terminal
RenderedCaseOrder(order) ==
    \A b \in 1..Len(batches) :
        (Rendered(b) /\ Len(CurrentCases(VisitedUri(b))) > 0) =>
            LET expected == [i \in 1..Len(CurrentCases(VisitedUri(b))) |->
                                Ordered(CurrentCases(VisitedUri(b)), order)[i].id]
                lines    == TextsOf(CallsOf(NewChannelCalls, "appendLine"))
                fired    == TextsOf(CallsOf(NewTerminalCalls, "fire"))
            IN  /\ [i \in 1..Len(lines) |-> IdOf(lines[i])] = expected
                /\ [i \in 1..Len(fired) |-> IdOf(fired[i])] = expected

\* C8 as claimed (case-mode render order): the case lines are written to
\* both sinks in ascending id order, whatever the order of the markers.
C8_LinesInIdOrder == [][RenderedCaseOrder("id")]_vars

\* C8 as amended: the case lines are written to both sinks in the order of
\* the markers in the document (ascending startLine), also when that is not
\* the ascending id order.
C8_LinesInMarkerOrder == [][RenderedCaseOrder("marker")]_vars

\* the output channel holds the line of case 2 followed by the line of case
\* 1, of the same invocation and document, and so does the terminal
C8_Witness ==
    /\ \E k \in 1..(Len(outputChannel) - 1) :
         /\ outputChannel[k].batch = outputChannel[k + 1].batch
         /\ outputChannel[k].uri = outputChannel[k + 1].uri
         /\ IsCaseLine(outputChannel[k].text)
         /\ IsCaseLine(outputChannel[k + 1].text)
         /\ IdOf(outputChannel[k].text) = 2
         /\ IdOf(outputChannel[k + 1].text) = 1
    /\ \E k \in 1..(Len(terminalLog) - 1) :
         /\ terminalLog[k].batch = terminalLog[k + 1].batch
         /\ terminalLog[k].uri = terminalLog[k + 1].uri
         /\ IsCaseLine(terminalLog[k].text)
         /\ IsCaseLine(terminalLog[k + 1].text)
         /\ IdOf(terminalLog[k].text) = 2
         /\ IdOf(terminalLog[k + 1].text) = 1

\* C9 (flat fallback): an iteration that renders a document without cases
\* appends, for each diagnostic of the analyzer in the host's order, the
\* locator line and then the text of the line the diagnostic starts on; and
\* no iteration for a document without cases creates, reveals or fires a
\* terminal.
C9_FlatFallback ==
    [][\A b \in 1..Len(batches) :
          (Visited(b) /\ Len(CurrentCases(VisitedUri(b))) = 0) =>
             /\ terminalLog' = terminalLog
             /\ terminals' = terminals
             /\ caseTerminal' = caseTerminal
             /\ caseTerminalWriter' = caseTerminalWriter
             /\ Rendered(b) =>
                  LET diags == CurrentDiags(VisitedUri(b))
                      lines == TextsOf(CallsOf(NewChannelCalls, "appendLine"))
                  IN  /\ Len(lines) = 2 * Len(diags)
                      /\ \A k \in 1..Len(diags) :
                           /\ lines[2 * k - 1] = LocatorLine(VisitedUri(b), diags[k])
                           /\ lines[2 * k] =
                                LineAtText(CurrentDoc(VisitedUri(b)),
                                           diags[k].range.start.line)
      ]_vars

\* the calls of invocation b with operation op
RECURSIVE CallsBy(_, _, _)
CallsBy(calls, b, op) ==
    IF calls = <<>> THEN <<>>
    ELSE IF Head(calls).op = op /\ Head(calls).batch = b
         THEN <<Head(calls)>> \o CallsBy(Tail(calls), b, op)
    ELSE CallsBy(Tail(calls), b, op)

\* in the calls on one sink, an invocation reveals at most once and writes
\* (operation write) only after it has revealed
RevealsOnceAndFirst(calls, write) ==
    \A b \in 1..Len(batches) :
        /\ Len(CallsBy(calls, b, "show")) <= 1
        /\ \A k \in 1..Len(calls) :
             (calls[k].batch = b /\ calls[k].op = write) =>
                \E j \in 1..(k - 1) : calls[j].batch = b /\ calls[j].op = "show"

\* C10 (reveal policy): within one invocation of reportXssDiagnostics the
\* output channel is revealed at most once and the terminal at most once,
\* each before the first line the invocation writes to it; and an iteration
\* that is suppressed calls neither sink, so an invocation whose documents
\* are all suppressed reveals neither.
C10_RevealPolicy ==
    /\ [](/\ RevealsOnceAndFirst(outputChannel, "appendLine")
          /\ RevealsOnceAndFirst(terminalLog, "fire"))
    /\ [][/\ \A k \in 1..Len(NewChannelCalls) : Rendered(NewChannelCalls[k].batch)
          /\ \A k \in 1..Len(NewTerminalCalls) : Rendered(NewTerminalCalls[k].batch)
         ]_vars

\* the first invocation has rendered both documents, with cases each, and
\* revealed each sink once
C10_Witness ==
    /\ Len(batches) >= 1
    /\ batches[1].state = "fulfilled"
    /\ Len(batches[1].uris) = 2
    /\ \A uri \in Uris :
         /\ \E k \in 1..Len(outputChannel) :
               /\ outputChannel[k].batch = 1
               /\ outputChannel[k].uri = uri
               /\ outputChannel[k].op = "appendLine"
         /\ \E k \in 1..Len(terminalLog) :
               /\ terminalLog[k].batch = 1
               /\ terminalLog[k].uri = uri
               /\ terminalLog[k].op = "fire"
    /\ Len(CallsBy(outputChannel, 1, "show")) = 1
    /\ Len(CallsBy(terminalLog, 1, "show")) = 1

\* the elapsed value written on a case line: the text between the label and
\* the final "s" (tail is the number of elements after the "s": none on the
\* output channel, the line terminator on the terminal)
ElapsedText(line, tail) ==
    SubSeq(line, (CHOOSE k \in 1..Len(line) : line[k] = "beon keiseu -> ") + 3,
           Len(line) - 1 - tail)

\* the number of hundredths of a second that a text "<digits>.<dd>" denotes,
\* or -1 if the text has another form
Hundredths(text) ==
    IF /\ Len(text) >= 4
       /\ text[Len(text) - 2] = "."
       /\ \A k \in (1..Len(text)) \ {Len(text) - 2} : IsDigit(text[k])
    THEN 100 * DigitsToNumber(SubSeq(text, 1, Len(text) - 3))
           + DigitsToNumber(SubSeq(text, Len(text) - 1, Len(text)))
    ELSE -1

\* C11 (elapsed time): in a case-mode iteration that renders, the elapsed
\* value on every case line, of both sinks, is max(0, now - lastChangeAt[doc])
\* in seconds with two decimals (rounded to the nearest hundredth), 0.00 when
\* no change was recorded for the document, never negative, and the same on
\* every line of the iteration; a change 1500 ms ago gives 1.50.
C11_Elapsed ==
    [][\A b \in 1..Len(batches) :
          (Rendered(b) /\ Len(CurrentCases(VisitedUri(b))) > 0) =>
             LET uriKey == UriToString(VisitedUri(b))
                 since  == IF uriKey \in DOMAIN lastChangeAt
                           THEN now - lastChangeAt[uriKey] ELSE 0
                 ms     == IF since > 0 THEN since ELSE 0
                 lines  == TextsOf(CallsOf(NewChannelCalls, "appendLine"))
                 fired  == TextsOf(CallsOf(NewTerminalCalls, "fire"))
             IN  /\ Len(lines) > 0
                 /\ Len(fired) = Len(lines)
                 /\ \A i \in 1..Len(lines) :
                      /\ Hundredths(ElapsedText(lines[i], 0)) >= 0
                      /\ 10 * Hundredths(ElapsedText(lines[i], 0)) - ms \in -5..5
                      /\ ms = 0 => ElapsedText(lines[i], 0) = <<"0", ".", "0", "0">>
                      /\ ms = 1500 => ElapsedText(lines[i], 0) = <<"1", ".", "5", "0">>
                      /\ ElapsedText(lines[i], 0) = ElapsedText(lines[1], 0)
                      /\ ElapsedText(fired[i], 1) = ElapsedText(lines[1], 0)
      ]_vars

\* both sinks hold a case line with the elapsed value 1.50, and a case line
\* with the elapsed value 0.00 was written after it
C11_Witness ==
    /\ \E k \in 1..Len(terminalLog) :
         /\ terminalLog[k].op = "fire"
         /\ ElapsedText(terminalLog[k].text, 1) = <<"1", ".", "5", "0">>
    /\ \E k \in 1..Len(outputChannel) : \E j \in (k + 1)..Len(outputChannel) :
         /\ IsCaseLine(outputChannel[k].text)
         /\ IsCaseLine(outputChannel[j].text)
         /\ ElapsedText(outputChannel[k].text, 0) = <<"1", ".", "5", "0">>
         /\ ElapsedText(outputChannel[j].text, 0) = <<"0", ".", "0", "0">>

\* b is a with the message of one diagnostic changed and its four position
\* fields, and every other diagnostic, as they were
OneMessageChanged(a, b) ==
    /\ Len(a) = Len(b)
    /\ \E k \in 1..Len(a) :
         /\ a[k].range = b[k].range
         /\ a[k].message # b[k].message
         /\ \A j \in (1..Len(a)) \ {k} : a[j] = b[j]

\* b is a in another order
Reordered(a, b) ==
    /\ Len(a) = Len(b)
    /\ \E p \in Permutations(1..Len(a)) : \A i \in 1..Len(a) : b[i] = a[p[i]]

\* C12 (flat-mode fingerprint sensitivity): the fingerprint of a set of
\* diagnostics differs from the fingerprint of every set that is the same
\* but for the message of one diagnostic, and equals the fingerprint of the
\* same diagnostics in any other order.
C12_FingerprintSensitivity ==
    probe.fn = "FlatFingerprint" =>
        \A other \in FingerprintInputs :
            /\ OneMessageChanged(probe.diags, other) =>
                 FlatFingerprint(other) # probe.result
            /\ Reordered(probe.diags, other) =>
                 FlatFingerprint(other) = probe.result

\* a case line without its elapsed value: up to the label
WithoutElapsed(line) ==
    SubSeq(line, 1, (CHOOSE k \in 1..Len(line) : line[k] = "beon keiseu -> ") + 1)

\* the last two evaluations are of the same document
TwoEvaluations ==
    /\ probe.fn = "reportXssDiagnostics"
    /\ probe.first.mode # "none"

\* the evaluation computed a key and its render returned
Completed(e) == e.key # NoKey /\ ~e.threw

\* C13 as claimed (fingerprint faithfulness): two evaluations of a document,
\* each with a key computed and its lines written, have the same key if and
\* only if they write the same lines, to the output channel and to the
\* terminal.
C13_KeyFaithful ==
    (TwoEvaluations /\ Completed(probe.first) /\ Completed(probe.second)) =>
        ((probe.first.key = probe.second.key)
           <=> (/\ probe.first.lines = probe.second.lines
                /\ probe.first.fired = probe.second.fired))

\* C13 as amended: two evaluations of a document that has cases in both have
\* the same key if and only if they write the same case lines apart from the
\* elapsed value of the lines, which is not part of the key.
C13_CaseKeyFaithful ==
    (TwoEvaluations /\ probe.first.mode = "case" /\ probe.second.mode = "case") =>
        ((probe.first.key = probe.second.key)
           <=> ([i \in 1..Len(probe.first.lines) |-> WithoutElapsed(probe.first.lines[i])]
                  = [i \in 1..Len(probe.second.lines) |-> WithoutElapsed(probe.second.lines[i])]))

\* two evaluations of a document with cases have the same key and write the
\* same case lines but for the elapsed value
C13_Witness ==
    /\ TwoEvaluations
    /\ probe.first.mode = "case"
    /\ probe.second.mode = "case"
    /\ probe.first.key = probe.second.key
    /\ probe.first.lines # probe.second.lines
    /\ Len(probe.first.lines) = 2

\* this step is an iteration of invocation b whose render ended by an
\* exception
RenderFailed(b) == Visited(b) /\ batches'[b].state = "rejected"

\* C14 (lastReportKey is written only after a successful render): an
\* iteration whose render fails part-way leaves the key stored for its
\* document as it was, so that one more iteration with the same inputs would
\* not be suppressed; and an iteration that stores a key has written every
\* line of the report of its document.
C14_KeyAfterRender ==
    [][\A b \in 1..Len(batches) :
          /\ RenderFailed(b) =>
               \E uri \in {VisitedUri(b)} :
                  /\ lastReports' = lastReports
                  /\ ~RerunIsNoOp(uri)'
          /\ (Rendered(b) /\ Len(CurrentCases(VisitedUri(b))) = 0) =>
               Len(CallsOf(NewChannelCalls, "appendLine"))
                 = 2 * Len(CurrentDiags(VisitedUri(b)))
      ]_vars

\* diagnostics of other tools: on the first line, past the end of every
\* text of the model, and with no source
OtherDiagnostics ==
    {DiagOther,
     Diagnostic(9, 0, 1, <<"y">>, "pylint"),
     Diagnostic(1, 2, 3, <<"x">>, "")}

\* the lists of diagnostics that differ from all in diagnostics of other
\* tools only: those of the analyzer in all, in their order, alone, with one
\* diagnostic of another tool anywhere, or between two of them
SameForAnalyzer(all) ==
    LET own == [k \in {i \in 1..Len(all) : all[i].source = AnalyzerSource} |-> all[k]]
        f   == [i \in 1..Cardinality(DOMAIN own) |->
                  own[CHOOSE k \in DOMAIN own :
                        Cardinality({j \in DOMAIN own : j < k}) = i - 1]]
    IN  {f}
          \cup {SubSeq(f, 1, i) \o <<o>> \o SubSeq(f, i + 1, Len(f)) :
                  i \in 0..Len(f), o \in OtherDiagnostics}
          \cup {<<o1>> \o f \o <<o2>> : o1 \in OtherDiagnostics, o2 \in OtherDiagnostics}

\* C15 (source filter non-interference): every iteration of
\* reportXssDiagnostics does what it would do with any diagnostics that
\* differ from those of its document in diagnostics of other sources only:
\* the same calls on the output channel and on the terminal, reveals
\* included, the same lastReports and terminal state, and the same end of
\* the iteration.  So two runs over the same events that differ in such
\* diagnostics only stay equal step by step.
C15_SourceFilter ==
    [][\A b \in 1..Len(batches) :
          Visited(b) =>
             \A ds \in SameForAnalyzer(diagnostics[VisitedUri(b)]) :
                \E r \in {ReportDocument(ProgramState, batches[b], b, VisitedUri(b),
                                         docText[VisitedUri(b)], ds)} :
                   /\ lastReports' = r.st.lastReports
                   /\ caseTerminal' = r.st.caseTerminal
                   /\ caseTerminalWriter' = r.st.caseTerminalWriter
                   /\ terminals' = r.st.terminals
                   /\ outputChannel' = outputChannel \o r.channelCalls
                   /\ terminalLog' = terminalLog \o r.terminalCalls
                   /\ batches'[b] = r.inv
      ]_vars

\* the python document, without cases, holds two diagnostics of the analyzer
\* and one of another tool, and its report of two entries was written
C15_Witness ==
    /\ diagnostics[UriA] = <<DiagY2, DiagOther, DiagX1>>
    /\ docText[UriA] = TextFlat
    /\ Len(batches) = 1
    /\ batches[1].state = "fulfilled"
    /\ UriToString(UriA) \in DOMAIN lastReports
    /\ Len(CallsOf(outputChannel, "appendLine")) = 4

\* the calls of one iteration (one invocation, one document) on a sink are
\* next to each other
Contiguous(calls) ==
    \A k \in 1..Len(calls) : \A j \in (k + 1)..Len(calls) :
        (calls[k].batch = calls[j].batch /\ calls[k].uri = calls[j].uri) =>
            \A m \in k..j :
                calls[m].batch = calls[k].batch /\ calls[m].uri = calls[k].uri

\* C16 (sink line attribution under overlapping invocations): in every
\* interleaving of the invocations of reportXssDiagnostics, the calls that
\* the iteration for one document makes on a sink have no call of another
\* document or invocation between them; and a key is stored for a document
\* only in the step of an iteration for that document, as the key of the
\* text and diagnostics that this step compared with the stored key, and
\* the calls of that step are all of this iteration.
C16_Attribution ==
    /\ [](Contiguous(outputChannel) /\ Contiguous(terminalLog))
    /\ [][\A uri \in Uris :
            (/\ UriToString(uri) \in DOMAIN lastReports'
             /\ \/ UriToString(uri) \notin DOMAIN lastReports
                \/ lastReports[UriToString(uri)] # lastReports'[UriToString(uri)])
            => \E b \in 1..Len(batches) :
                  /\ Visited(b)
                  /\ VisitedUri(b) = uri
                  /\ lastReports'[UriToString(uri)] = OutcomeKey(uri)
                  /\ \A k \in 1..Len(NewChannelCalls) :
                       NewChannelCalls[k].batch = b /\ NewChannelCalls[k].uri = uri
                  /\ \A k \in 1..Len(NewTerminalCalls) :
                       NewTerminalCalls[k].batch = b /\ NewTerminalCalls[k].uri = uri
         ]_vars

\* two invocations overlapped: the output channel holds lines of the first,
\* then lines of the second, then lines of the first again
C16_Witness ==
    \E k \in 1..Len(outputChannel) :
      \E m \in (k + 1)..Len(outputChannel) :
        \E j \in (m + 1)..Len(outputChannel) :
           /\ outputChannel[k].batch = 1 /\ outputChannel[k].op = "appendLine"
           /\ outputChannel[m].batch = 2 /\ outputChannel[m].op = "appendLine"
           /\ outputChannel[j].batch = 1 /\ outputChannel[j].op = "appendLine"

\* the terminals whose closed notification the extension has handled
ClosedTerminals == {t \in 1..Len(terminals) : terminals[t].state = "closed"}

\* C17 (no write into a released sink): in every interleaving of closed
\* notifications with iterations, every chunk is fired on the emitter that
\* the extension owns when it fires, which is live and is the one of the
\* owned terminal, open at that time; no chunk is fired on the emitter of a
\* terminal whose closed notification was handled before; and the owned
\* pair changes only when the owned terminal is closed or when a case-mode
\* iteration that renders acquires a new one.
C17_NoReleasedSink ==
    [][/\ \A k \in 1..Len(NewTerminalCalls) :
            /\ caseTerminal' # Undefined
            /\ terminals'[caseTerminal'].state = "open"
            /\ NewTerminalCalls[k].op = "show" =>
                 NewTerminalCalls[k].id = caseTerminal'
            /\ NewTerminalCalls[k].op = "fire" =>
                 /\ NewTerminalCalls[k].id = caseTerminalWriter'
                 /\ NewTerminalCalls[k].id = terminals'[caseTerminal'].pty
                 /\ writers'[NewTerminalCalls[k].id] = "live"
                 /\ \A t \in ClosedTerminals :
                      terminals[t].pty # NewTerminalCalls[k].id
       /\ (caseTerminal' # caseTerminal \/ caseTerminalWriter' # caseTerminalWriter) =>
            \/ /\ caseTerminal # Undefined
               /\ terminals[caseTerminal].state = "open"
               /\ terminals'[caseTerminal].state = "closed"
               /\ caseTerminal' = Undefined
               /\ caseTerminalWriter' = Undefined
            \/ /\ caseTerminal = Undefined
               /\ \E b \in 1..Len(batches) :
                     Rendered(b) /\ Len(CurrentCases(VisitedUri(b))) > 0
               /\ caseTerminal' = Len(terminals) + 1
      ]_vars

\* the owned terminal was closed while the first invocation was suspended
\* between two documents: the invocation fired on the emitter of the first
\* terminal, now closed, and later on the emitter of the second
C17_Witness ==
    /\ Len(terminals) = 2
    /\ terminals[1].state = "closed"
    /\ \E k \in 1..Len(terminalLog) : \E j \in (k + 1)..Len(terminalLog) :
         /\ terminalLog[k].op = "fire" /\ terminalLog[k].batch = 1
         /\ terminalLog[k].id = terminals[1].pty
         /\ terminalLog[j].op = "fire" /\ terminalLog[j].batch = 1
         /\ terminalLog[j].id = terminals[2].pty

\* the case lines among the lines appended to the output channel, in order
RECURSIVE CaseLinesOf(_)
CaseLinesOf(calls) ==
    IF calls = <<>> THEN <<>>
    ELSE IF Head(calls).op = "appendLine" /\ IsCaseLine(Head(calls).text)
         THEN <<Head(calls).text>> \o CaseLinesOf(Tail(calls))
    ELSE CaseLinesOf(Tail(calls))

\* C18 (dual-sink agreement in case mode): in every reachable state, the
\* chunks fired on the emitters of the terminals, in order, are the case
\* lines appended to the output channel, in order, each followed by a
\* carriage return and a line feed; so every case line is on both sinks or
\* on neither.
C18_DualSink ==
    TextsOf(CallsOf(terminalLog, "fire"))
      = [i \in 1..Len(CaseLinesOf(outputChannel)) |->
            CaseLinesOf(outputChannel)[i] \o <<"\r\n">>]

\* case lines were fired on the emitters of two terminals, and the output
\* channel holds the entry of a flat report as well
C18_Witness ==
    /\ \E k \in 1..Len(terminalLog) : \E j \in 1..Len(terminalLog) :
         /\ terminalLog[k].op = "fire"
         /\ terminalLog[j].op = "fire"
         /\ terminalLog[k].id # terminalLog[j].id
    /\ \E k \in 1..Len(outputChannel) :
         /\ outputChannel[k].op = "appendLine"
         /\ ~IsCaseLine(outputChannel[k].text)

\* the diagnostics of diags that start on one of the lines from..to
RECURSIVE StartingIn(_, _, _)
StartingIn(diags, from, to) ==
    IF diags = <<>> THEN <<>>
    ELSE IF Head(diags).range.start.line \in from..to
         THEN <<Head(diags)>> \o StartingIn(Tail(diags), from, to)
    ELSE StartingIn(Tail(diags), from, to)

\* the cases of cs that match the diagnostic
MatchingCases(cs, diag) == {i \in 1..Len(cs) : caseHasIssue(<<diag>>, cs[i])}

\* the evaluation probe holds is the one of the document of uri with the
\* diagnostics diags
SameEvaluation(uri, diags) ==
    \E r \in {ReportDocument([ProgramState EXCEPT !.lastReports = EmptyMap],
                             StartReport(<<uri>>), 0, uri, docText[uri], diags)} :
       /\ Evaluation(r, UriToString(uri), "case").key = probe.second.key
       /\ Evaluation(r, UriToString(uri), "case").lines = probe.second.lines
       /\ Evaluation(r, UriToString(uri), "case").fired = probe.second.fired

\* For a document with cases that was evaluated: every line from the first
\* marker to the last line is in exactly one case range; every diagnostic of
\* the analyzer that starts on one of the lines from the first marker to
\* line `last` is matched by exactly one case; and the diagnostics that start
\* on no such line are matched by no case and change neither the key nor a
\* line written.
TailPartition(last) ==
    (probe.fn = "reportXssDiagnostics" /\ Len(CurrentCases(probe.uri)) > 0) =>
        LET cs    == CurrentCases(probe.uri)
            ds    == CurrentDiags(probe.uri)
            first == cs[1].startLine
            final == LineCount(CurrentDoc(probe.uri)) - 1
        IN  /\ \A l \in first..final :
                 Cardinality({i \in 1..Len(cs) : l \in cs[i].startLine..cs[i].endLine}) = 1
            /\ \A k \in 1..Len(ds) :
                 IF ds[k].range.start.line \in
                      first..(IF last = "any" THEN ds[k].range.start.line ELSE final)
                 THEN Cardinality(MatchingCases(cs, ds[k])) = 1
                 ELSE MatchingCases(cs, ds[k]) = {}
            /\ SameEvaluation(probe.uri,
                   StartingIn(ds, first, IF last = "any" THEN MaxLines + 30 ELSE final))

\* C19 as claimed (case ranges partition the tail of the document): every
\* diagnostic of the analyzer that starts at or after the first marker is
\* matched by exactly one case, and one that starts before the first marker
\* by none, changing neither the key nor a line written.
C19_TailPartition == TailPartition("any")

\* C19 as amended: every diagnostic of the analyzer that starts on a line
\* from the first marker to the last line of the document is matched by
\* exactly one case; one that starts before the first marker or after the
\* last line is matched by none and changes neither the key nor a line
\* written.
C19_TailPartitionOfText == TailPartition("text")

\* a document whose first marker is not on its first line was evaluated with
\* a diagnostic before the first marker and a diagnostic at or after it
C19_Witness ==
    /\ probe.fn = "reportXssDiagnostics"
    /\ probe.uri = UriA
    /\ Len(CurrentCases(UriA)) > 0
    /\ CurrentCases(UriA)[1].startLine > 0
    /\ \E k \in 1..Len(CurrentDiags(UriA)) :
         CurrentDiags(UriA)[k].range.start.line < CurrentCases(UriA)[1].startLine
    /\ \E k \in 1..Len(CurrentDiags(UriA)) :
         MatchingCases(CurrentCases(UriA), CurrentDiags(UriA)[k]) # {}

\* m2 is m but for the value at key k
SameButAt(m, m2, k) ==
    /\ DOMAIN m \subseteq DOMAIN m2
    /\ DOMAIN m2 \subseteq DOMAIN m \cup {k}
    /\ \A x \in DOMAIN m \ {k} : m2[x] = m[x]

\* the outcome key of a document with the text lines and the diagnostics all
OutcomeKeyOf(uri, lines, all) ==
    IF Len(extractCases([uri |-> uri, lines |-> lines])) > 0
    THEN CaseReportKey(extractCases([uri |-> uri, lines |-> lines]),
                       FilteredDiagnostics(all))
    ELSE FlatFingerprint(FilteredDiagnostics(all))

\* an iteration for uri in state st, with the text lines and the diagnostics
\* all, calls neither sink and leaves the state as it is
ReportsNothing(st, uri, lines, all) ==
    \E r \in {ReportDocument(st, StartReport(<<uri>>), 0, uri, lines, all)} :
        /\ r.channelCalls = <<>>
        /\ r.terminalCalls = <<>>
        /\ r.st = st

\* this step is an open, save or edit notification that changed something
Notified == docText' # docText \/ lastChangeAt' # lastChangeAt

\* C20 (frame of the state maps): an iteration for a document leaves the
\* lastReports entries of the other documents and all of lastChangeAt as
\* they were; an open, save or edit notification changes lastChangeAt of its
\* own document only, to the time of the notification, never lastReports,
\* and calls no sink; and when the document had nothing new to report
\* before an edit and the edit leaves the outcome key as it was, the next
\* iteration for the document reports nothing.
C20_Frame ==
    [][/\ \A b \in 1..Len(batches) :
            Visited(b) =>
               /\ lastChangeAt' = lastChangeAt
               /\ SameButAt(lastReports, lastReports', UriToString(VisitedUri(b)))
       /\ Notified =>
            /\ lastReports' = lastReports
            /\ outputChannel' = outputChannel
            /\ terminalLog' = terminalLog
            /\ \E uri \in Uris :
                 /\ \A other \in Uris \ {uri} : docText'[other] = docText[other]
                 /\ SameButAt(lastChangeAt, lastChangeAt', UriToString(uri))
                 /\ UriToString(uri) \in DOMAIN lastChangeAt'
                 /\ lastChangeAt'[UriToString(uri)] = now
                 /\ \E after \in {ProgramState'} : \E lines \in {docText'[uri]} :
                      (/\ OutcomeKeyOf(uri, lines, diagnostics[uri]) = OutcomeKey(uri)
                       /\ RerunIsNoOp(uri))
                      => ReportsNothing(after, uri, lines, diagnostics[uri])
      ]_vars

\* the python document was reported in flat mode, then edited to another
\* text with the same key, and the invocation that followed reported nothing
C20_Witness ==
    /\ docText[UriA] = TextShort
    /\ diagnostics[UriA] = <<DiagX1>>
    /\ UriToString(UriA) \in DOMAIN lastReports
    /\ lastReports[UriToString(UriA)] = FlatFingerprint(<<DiagX1>>)
    /\ Len(batches) = 2
    /\ \A b \in 1..2 : batches[b].uris = <<UriA>> /\ batches[b].state = "fulfilled"
    /\ \E k \in 1..Len(outputChannel) : outputChannel[k].text = LineNotCase
    /\ \A k \in 1..Len(outputChannel) : outputChannel[k].batch = 1

====
